---- MODULE Spec2Model ----
(***************************************************************************)
(* Model of src/node_launcher.py: class ROS2NodeLauncher, a supervisor     *)
(* that keeps a registry (self.processes) of child processes by node name. *)
(*                                                                         *)
(* Spec     : the registry methods called one after the other, each call   *)
(*            one atomic action, with children that may exit on their own. *)
(* SpecRun  : one run of main(), statement by statement, in interactive or *)
(*            command-line mode, with SIGINT delivered between statements. *)
(***************************************************************************)
EXTENDS Integers, Sequences, FiniteSets, TLC

VARIABLES
  processes,   \* self.processes: insertion-ordered dict, a sequence of [name, pid]
  children,    \* every child process spawned so far, indexed by pid (handle):
               \* its name, whether it is alive, whether terminate() signalled
               \* it, whether a wait() on it has returned
  last,        \* the last method call: its arguments, registry before, log, return
  argv,        \* the command line of the run: the flags argparse finds
  stack,       \* the call stack of the main thread, innermost frame last
  handler,     \* what SIGINT does: "default" (KeyboardInterrupt) or "signal_handler"
  exit_code,   \* "running", or the exit status of the process once it ended
  sigint,      \* number of SIGINTs delivered
  cleanups,    \* number of times cleanup() was entered
  cleaned,     \* number of times cleanup() ran to its end
  quit,        \* whether the operator gave the quit command
  listed       \* whether the catalog was printed for --list

runvars == <<argv, stack, handler, exit_code, sigint, cleanups, cleaned, quit, listed>>
vars == <<processes, children, last, runvars>>

----------------------------------------------------------------------------
(* Bounds *)

CatalogSize == 2      \* catalog entries of available_nodes that are modelled
MaxSpawns == 2        \* successful Popen calls in one run
MaxInterrupts == 2    \* SIGINTs delivered in one run

----------------------------------------------------------------------------
(* The catalog, __init__ lines 19-28 *)

AllNodes ==
  << [key |-> "1", name |-> "publisher_node"],
     [key |-> "2", name |-> "subscriber_node"],
     [key |-> "3", name |-> "service_node"],
     [key |-> "4", name |-> "client_node"],
     [key |-> "5", name |-> "led_client"],
     [key |-> "6", name |-> "led_service"],
     [key |-> "7", name |-> "yes_no_service"],
     [key |-> "8", name |-> "yes_no_client"] >>

available_nodes == SubSeq(AllNodes, 1, CatalogSize)

NodeNames == {available_nodes[i].name : i \in DOMAIN available_nodes}
CatalogKeys == {available_nodes[i].key : i \in DOMAIN available_nodes}

\* `key in self.available_nodes` and `self.available_nodes[key]['name']`
HasKey(key) == \E i \in DOMAIN available_nodes : available_nodes[i].key = key
NameOfKey(key) ==
  available_nodes[CHOOSE i \in DOMAIN available_nodes : available_nodes[i].key = key].name

\* Keys an operator may type: the catalog keys, a key of no entry, and a
\* catalog key with surrounding blanks.  str.strip() removes the blanks.
PaddedKey == " 1 "
UnknownKey == "9"
InputKeys == {"1", "2", UnknownKey, PaddedKey}
strip(key) == IF key = PaddedKey THEN "1" ELSE key

----------------------------------------------------------------------------
(* The dict self.processes, kept in insertion order *)

Registered(procs, node_name) == \E i \in DOMAIN procs : procs[i].name = node_name

PidOf(procs, node_name) ==
  procs[CHOOSE i \in DOMAIN procs : procs[i].name = node_name].pid

\* self.processes[node_name] = process
SetItem(procs, node_name, pid) ==
  IF Registered(procs, node_name)
  THEN [i \in DOMAIN procs |->
          IF procs[i].name = node_name THEN [name |-> node_name, pid |-> pid] ELSE procs[i]]
  ELSE Append(procs, [name |-> node_name, pid |-> pid])

\* del self.processes[node_name]
DelItem(procs, node_name) == SelectSeq(procs, LAMBDA e : e.name # node_name)

\* the registered names in the order of the catalog
KeyList_CatalogOrder(procs) ==
  LET known == SelectSeq(available_nodes,
                         LAMBDA node : \E i \in DOMAIN procs : procs[i].name = node.name)
  IN [i \in DOMAIN known |-> known[i].name]

\* list(self.processes.keys())
KeyList(procs) == [i \in DOMAIN procs |-> procs[i].name]

----------------------------------------------------------------------------
(* Log of what one call does: prints, calls of methods, calls to the OS *)

Ev(e, n, pid) == [e |-> e, n |-> n, pid |-> pid]

Say(m, evs) == [m EXCEPT !.log = @ \o evs]

Count(log, e) == Cardinality({i \in DOMAIN log : log[i].e = e})

\* the OS-level calls: spawn, signal, wait
OSCalls == {"Popen", "terminate", "wait"}
NoOSCall(log) == \A i \in DOMAIN log : log[i].e \notin OSCalls

\* what a call starts from
Start(procs, kids) == [processes |-> procs, children |-> kids, log |-> <<>>, ret |-> "None"]

----------------------------------------------------------------------------
(* launch_node, lines 48-69 *)

\* the check of line 50 left out
AlreadyRunning_Never(m, node_name) == FALSE

\* a check that polls the child and takes an exited child for an absent one
AlreadyRunning_IfAlive(m, node_name) ==
  /\ Registered(m.processes, node_name)
  /\ m.children[PidOf(m.processes, node_name)].alive

\* line 50: `if node_name in self.processes`
AlreadyRunning(m, node_name) == Registered(m.processes, node_name)

\* lines 56-65: Popen returned a process; it is recorded and True returned
SpawnDone(m, node_name) ==
  LET pid == Len(m.children) + 1 IN
  [processes |-> SetItem(m.processes, node_name, pid),
   children  |-> Append(m.children,
                        [name |-> node_name, alive |-> TRUE, signalled |-> FALSE,
                         waited |-> FALSE]),
   log       |-> m.log \o << Ev("launching", node_name, 0),
                              Ev("Popen", node_name, pid),
                              Ev("started", node_name, pid) >>,
   ret       |-> "True"]

\* a failed launch that leaves a record of the failure in the registry
SpawnFailed_Recorded(m, node_name) ==
  [Say(m, << Ev("launching", node_name, 0),
             Ev("Popen", node_name, 0),
             Ev("failed", node_name, 0) >>)
     EXCEPT !.processes = SetItem(@, node_name, 0), !.ret = "False"]

\* lines 67-69: Popen raised; the exception is caught and False returned
SpawnFailed(m, node_name) ==
  [Say(m, << Ev("launching", node_name, 0),
             Ev("Popen", node_name, 0),
             Ev("failed", node_name, 0) >>)
     EXCEPT !.ret = "False"]

\* spawn_ok: whether subprocess.Popen returns a process or raises
launch_node(m, node_name, spawn_ok) ==
  LET m0 == Say(m, <<Ev("launch_node", node_name, 0)>>) IN
  IF AlreadyRunning(m0, node_name)
  THEN [Say(m0, <<Ev("already_running", node_name, PidOf(m0.processes, node_name))>>)
          EXCEPT !.ret = "False"]
  ELSE IF spawn_ok /\ Len(m0.children) < MaxSpawns
       THEN SpawnDone(m0, node_name)
       ELSE SpawnFailed(m0, node_name)

----------------------------------------------------------------------------
(* stop_node, lines 71-86 *)

\* How terminate() and wait(timeout=5) end for a child that is alive:
\*   exited     - the child exits within the wait
\*   timeout    - wait raises TimeoutExpired
\*   term_error - terminate raises, nothing was signalled
StopOutcomes == {"exited", "timeout", "term_error"}

\* a stop of an absent name that reports success
ReportNotRunning_AsStopped(m, node_name) ==
  [Say(m, <<Ev("stopped", node_name, 0)>>) EXCEPT !.ret = "True"]

\* lines 73-75: the name is no key of the registry
ReportNotRunning(m, node_name) ==
  [Say(m, <<Ev("not_running", node_name, 0)>>) EXCEPT !.ret = "False"]

\* a failed stop that deletes the entry all the same (`del` in a finally)
StopFailed_Deletes(m, node_name, pid) ==
  [Say(m, <<Ev("error_stopping", node_name, pid)>>)
     EXCEPT !.processes = DelItem(@, node_name), !.ret = "False"]

\* lines 84-86: terminate or wait raised; `del` was not reached
StopFailed(m, node_name, pid) ==
  [Say(m, <<Ev("error_stopping", node_name, pid)>>) EXCEPT !.ret = "False"]

\* lines 81-83: wait returned; the entry is deleted and True returned
StopDone(m, node_name, pid) ==
  [Say(m, <<Ev("stopped", node_name, pid)>>)
     EXCEPT !.processes = DelItem(@, node_name), !.ret = "True"]

stop_node(m, node_name, outcome) ==
  LET m0 == Say(m, <<Ev("stop_node", node_name, 0)>>) IN
  IF ~Registered(m0.processes, node_name)
  THEN ReportNotRunning(m0, node_name)
  ELSE
    LET pid == PidOf(m0.processes, node_name)
        kid == m0.children[pid]
        \* a child that already exited: terminate() sends nothing, wait() returns
        how == IF kid.alive THEN outcome ELSE "exited"
    IN CASE how = "term_error" ->
              StopFailed(Say(m0, <<Ev("terminate", node_name, pid)>>), node_name, pid)
         [] how = "timeout" ->
              StopFailed([Say(m0, << Ev("terminate", node_name, pid),
                                     Ev("wait", node_name, pid) >>)
                            EXCEPT !.children[pid].signalled = TRUE],
                         node_name, pid)
         [] how = "exited" ->
              StopDone([Say(m0, << Ev("terminate", node_name, pid),
                                   Ev("wait", node_name, pid) >>)
                          EXCEPT !.children[pid].signalled = @ \/ kid.alive,
                                 !.children[pid].alive = FALSE,
                                 !.children[pid].waited = TRUE],
                       node_name, pid)

----------------------------------------------------------------------------
(* stop_all_nodes, lines 88-97 *)

\* a loop that ends at the first stop_node that returns False
RECURSIVE StopEach_UntilFailure(_, _, _)
StopEach_UntilFailure(m, keys, outcomes) ==
  IF keys = <<>> THEN m
  ELSE LET m1 == stop_node(m, Head(keys), outcomes[Head(keys)]) IN
       IF m1.ret = "False" THEN m1
       ELSE StopEach_UntilFailure(m1, Tail(keys), outcomes)

\* lines 95-96: `for node_name in list(self.processes.keys()): self.stop_node(node_name)`
RECURSIVE StopEach(_, _, _)
StopEach(m, keys, outcomes) ==
  IF keys = <<>> THEN m
  ELSE StopEach(stop_node(m, Head(keys), outcomes[Head(keys)]), Tail(keys), outcomes)

\* stop_all_nodes without the check of lines 90-92
stop_all_nodes_NoCheck(m, outcomes) ==
  LET m1 == Say(m, <<Ev("stopping", "", Len(m.processes))>>)
      m2 == StopEach(m1, KeyList(m.processes), outcomes)
  IN [Say(m2, <<Ev("all_stopped", "", 0)>>) EXCEPT !.ret = "None"]

\* outcomes: for each node name, how its terminate/wait ends
stop_all_nodes(m, outcomes) ==
  IF m.processes = <<>>
  THEN [Say(m, <<Ev("no_nodes_running", "", 0)>>) EXCEPT !.ret = "None"]
  ELSE LET m1 == Say(m, <<Ev("stopping", "", Len(m.processes))>>)
           m2 == StopEach(m1, KeyList(m.processes), outcomes)
       IN [Say(m2, <<Ev("all_stopped", "", 0)>>) EXCEPT !.ret = "None"]

----------------------------------------------------------------------------
(* show_status, lines 99-107 *)

\* a status that lists the registry without its newest entry
show_status_Stale(m) ==
  IF Len(m.processes) <= 1
  THEN [Say(m, <<Ev("no_nodes_currently_running", "", 0)>>) EXCEPT !.ret = "None"]
  ELSE [Say(m, <<Ev("running_nodes", "", Len(m.processes) - 1)>>
                 \o [i \in 1..(Len(m.processes) - 1) |->
                       Ev("status_line", m.processes[i].name, m.processes[i].pid)])
          EXCEPT !.ret = "None"]

\* a status that polls the children and forgets those that have exited
show_status_Reaps(m) ==
  LET running == SelectSeq(m.processes, LAMBDA p : m.children[p.pid].alive)
  IN IF running = <<>>
     THEN [Say(m, <<Ev("no_nodes_currently_running", "", 0)>>)
             EXCEPT !.ret = "None", !.processes = running]
     ELSE [Say(m, <<Ev("running_nodes", "", Len(running))>>
                    \o [i \in DOMAIN running |->
                          Ev("status_line", running[i].name, running[i].pid)])
             EXCEPT !.ret = "None", !.processes = running]

show_status(m) ==
  IF m.processes = <<>>
  THEN [Say(m, <<Ev("no_nodes_currently_running", "", 0)>>) EXCEPT !.ret = "None"]
  ELSE [Say(m, <<Ev("running_nodes", "", Len(m.processes))>>
                 \o [i \in DOMAIN m.processes |->
                       Ev("status_line", m.processes[i].name, m.processes[i].pid)])
          EXCEPT !.ret = "None"]

\* the (nodeName, processID) lines of a log, in order
Snapshot(log) ==
  LET lines == SelectSeq(log, LAMBDA ev : ev.e = "status_line")
  IN [i \in DOMAIN lines |-> [name |-> lines[i].n, pid |-> lines[i].pid]]

----------------------------------------------------------------------------
(* launch_multiple, lines 109-118, and launch_all, lines 120-125 *)

\* a loop that ends at the first key that is no catalog key
RECURSIVE launch_multiple_StopsAtInvalid(_, _, _)
launch_multiple_StopsAtInvalid(m, node_keys, oks) ==
  IF node_keys = <<>> THEN [m EXCEPT !.ret = "None"]
  ELSE LET key == strip(Head(node_keys)) IN
       IF HasKey(key)
       THEN launch_multiple_StopsAtInvalid(
              Say(launch_node(m, NameOfKey(key), Head(oks)), <<Ev("sleep", "", 0)>>),
              Tail(node_keys), Tail(oks))
       ELSE [Say(m, <<Ev("invalid_key", key, 0)>>) EXCEPT !.ret = "None"]

\* oks: for each position of the list, whether a Popen there succeeds
RECURSIVE launch_multiple(_, _, _)
launch_multiple(m, node_keys, oks) ==
  IF node_keys = <<>> THEN [m EXCEPT !.ret = "None"]
  ELSE LET key == strip(Head(node_keys)) IN
       IF HasKey(key)
       THEN launch_multiple(
              Say(launch_node(m, NameOfKey(key), Head(oks)), <<Ev("sleep", "", 0)>>),
              Tail(node_keys), Tail(oks))
       ELSE launch_multiple(Say(m, <<Ev("invalid_key", key, 0)>>),
                            Tail(node_keys), Tail(oks))

\* a loop that ends at the first launch_node that returns False
RECURSIVE LaunchValues_UntilFailure(_, _, _)
LaunchValues_UntilFailure(m, nodes, oks) ==
  IF nodes = <<>> THEN [m EXCEPT !.ret = "None"]
  ELSE LET m1 == launch_node(m, Head(nodes).name, Head(oks)) IN
       IF m1.ret = "False" THEN [m1 EXCEPT !.ret = "None"]
       ELSE LaunchValues_UntilFailure(Say(m1, <<Ev("sleep", "", 0)>>), Tail(nodes), Tail(oks))

\* a loop over the catalog from its last entry to its first
RECURSIVE LaunchValues_Reversed(_, _, _)
LaunchValues_Reversed(m, nodes, oks) ==
  IF nodes = <<>> THEN [m EXCEPT !.ret = "None"]
  ELSE LaunchValues_Reversed(
         Say(launch_node(m, nodes[Len(nodes)].name, Head(oks)), <<Ev("sleep", "", 0)>>),
         SubSeq(nodes, 1, Len(nodes) - 1), Tail(oks))

\* lines 123-125: `for node_info in self.available_nodes.values()`
RECURSIVE LaunchValues(_, _, _)
LaunchValues(m, nodes, oks) ==
  IF nodes = <<>> THEN [m EXCEPT !.ret = "None"]
  ELSE LaunchValues(
         Say(launch_node(m, Head(nodes).name, Head(oks)), <<Ev("sleep", "", 0)>>),
         Tail(nodes), Tail(oks))

launch_all(m, oks) ==
  LaunchValues(Say(m, <<Ev("launching_all", "", 0)>>), available_nodes, oks)

----------------------------------------------------------------------------
(* Spec: the methods of one launcher called one after the other *)

NoCall == [op |-> "none", arg |-> <<>>, pre |-> <<>>, log |-> <<>>, ret |-> "None"]

NoArgv == [interactive |-> FALSE, list |-> FALSE, all |-> FALSE, nodes |-> <<>>]

Init ==
  /\ processes = <<>>
  /\ children = <<>>
  /\ argv = NoArgv
  /\ stack = <<>>
  /\ handler = "default"
  /\ exit_code = "running"
  /\ sigint = 0
  /\ cleanups = 0
  /\ cleaned = 0
  /\ quit = FALSE
  /\ listed = FALSE
  /\ last = [op |-> "none", arg |-> <<>>, pre |-> <<>>, nkids |-> 0, log |-> <<>>,
             ret |-> "None", prior |-> NoCall]

\* the launch_node call that a show_status follows immediately, kept with it
Prior(op) ==
  IF op = "show_status" /\ last.op = "launch_node"
  THEN [op |-> last.op, arg |-> last.arg, pre |-> last.pre, log |-> last.log,
        ret |-> last.ret]
  ELSE NoCall

Returned(op, arg, r) ==
  /\ processes' = r.processes
  /\ children' = r.children
  /\ last' = [op |-> op, arg |-> arg, pre |-> processes, nkids |-> Len(children),
              log |-> r.log, ret |-> r.ret, prior |-> Prior(op)]
  /\ UNCHANGED runvars

\* the key lists tried: empty, single keys, pairs, and lists with a key of no entry
KeyLists ==
  { <<>>, <<"1">>, <<UnknownKey>>, <<PaddedKey>>,
    <<"1", "2">>, <<"2", "1">>, <<"1", "1">>, <<UnknownKey, "2">>,
    <<"1", "2", UnknownKey>>, <<"1", UnknownKey, "2">> }

LaunchNode ==
  \E node_name \in NodeNames, spawn_ok \in BOOLEAN :
    Returned("launch_node", <<node_name>>,
             launch_node(Start(processes, children), node_name, spawn_ok))

StopNode ==
  \E node_name \in NodeNames, outcome \in StopOutcomes :
    Returned("stop_node", <<node_name>>,
             stop_node(Start(processes, children), node_name, outcome))

StopAllNodes ==
  \E outcomes \in [NodeNames -> StopOutcomes] :
    Returned("stop_all_nodes", <<>>,
             stop_all_nodes(Start(processes, children), outcomes))

ShowStatus ==
  Returned("show_status", <<>>, show_status(Start(processes, children)))

LaunchMultiple ==
  \E node_keys \in KeyLists :
    \E oks \in [DOMAIN node_keys -> BOOLEAN] :
      Returned("launch_multiple", node_keys,
               launch_multiple(Start(processes, children), node_keys, oks))

LaunchAll ==
  \E oks \in [DOMAIN available_nodes -> BOOLEAN] :
    Returned("launch_all", <<>>, launch_all(Start(processes, children), oks))

\* a child ends on its own; the launcher is not told
ChildExit ==
  \E pid \in DOMAIN children :
    /\ children[pid].alive
    /\ children' = [children EXCEPT ![pid].alive = FALSE]
    /\ UNCHANGED <<processes, last, runvars>>

Next ==
  \/ LaunchNode
  \/ StopNode
  \/ StopAllNodes
  \/ ShowStatus
  \/ LaunchMultiple
  \/ LaunchAll
  \/ ChildExit

Spec == Init /\ [][Next]_vars

----------------------------------------------------------------------------
(* SpecRun: one run of main(), lines 204-236, statement by statement *)

\* The command lines tried: no flag, and -i, -l, -a, -n alone and combined
Argvs ==
  { NoArgv,
    [NoArgv EXCEPT !.interactive = TRUE],
    [NoArgv EXCEPT !.list = TRUE],
    [NoArgv EXCEPT !.all = TRUE],
    [NoArgv EXCEPT !.nodes = <<"1", "2">>],
    [NoArgv EXCEPT !.nodes = <<UnknownKey, "2">>],
    [NoArgv EXCEPT !.nodes = <<PaddedKey>>],
    [NoArgv EXCEPT !.list = TRUE, !.all = TRUE],
    [NoArgv EXCEPT !.list = TRUE, !.nodes = <<"1">>],
    [NoArgv EXCEPT !.list = TRUE, !.interactive = TRUE] }

\* len(sys.argv) == 1
NoFlags(a) == a = NoArgv

\* The lines typed at the menu, split at the commas
QuitWords == {"quit", "q", "exit"}
MenuChoices ==
  { <<"quit">>, <<"q">>, <<"all">>, <<"stop">>, <<"status">>,
    <<"1">>, <<"2">>, <<UnknownKey>>, <<PaddedKey>>,
    <<"1", "2">>, <<"1", UnknownKey, "2">> }

Frame(fn, name, keys) ==
  [fn |-> fn, pc |-> "start", name |-> name, keys |-> keys, i |-> 1, pid |-> 0]

Top == stack[Len(stack)]
At(fn, pc) == exit_code = "running" /\ stack # <<>> /\ Top.fn = fn /\ Top.pc = pc

Jump(pc) == stack' = [stack EXCEPT ![Len(stack)].pc = pc]
Call(pc, f) == stack' = Append([stack EXCEPT ![Len(stack)].pc = pc], f)
Return == stack' = SubSeq(stack, 1, Len(stack) - 1)

InitRun ==
  /\ processes = <<>>
  /\ children = <<>>
  /\ last = [op |-> "none", arg |-> <<>>, pre |-> <<>>, nkids |-> 0, log |-> <<>>,
             ret |-> "None", prior |-> NoCall]
  /\ argv \in Argvs
  /\ stack = <<Frame("main", "", <<>>)>>
  /\ handler = "default"
  /\ exit_code = "running"
  /\ sigint = 0
  /\ cleanups = 0
  /\ cleaned = 0
  /\ quit = FALSE
  /\ listed = FALSE

\* lines 233-236
MainDispatch ==
  /\ At("main", "start")
  /\ IF argv.interactive \/ NoFlags(argv)
     THEN Call("end", Frame("run_interactive", "", <<>>))
     ELSE Call("end", Frame("run_command_line", "", <<>>))
  /\ UNCHANGED <<processes, children, last, argv, handler, exit_code, sigint, cleanups,
                 cleaned, quit, listed>>

\* main() returned: the process ends with status 0
MainEnd ==
  /\ At("main", "end")
  /\ exit_code' = "0"
  /\ stack' = <<>>
  /\ UNCHANGED <<processes, children, last, argv, handler, sigint, cleanups, cleaned, quit, listed>>

\* line 140: signal.signal(signal.SIGINT, signal_handler)
InstallHandler ==
  /\ At("run_interactive", "start")
  /\ handler' = "signal_handler"
  /\ Jump("menu")
  /\ UNCHANGED <<processes, children, last, argv, exit_code, sigint, cleanups, cleaned, quit, listed>>

\* lines 146-173: the menu, the line read, and the command it selects
MenuChoice ==
  /\ At("run_interactive", "menu")
  /\ \E choice \in MenuChoices :
       LET text == strip(choice[1]) IN
       IF Len(choice) = 1 /\ text \in QuitWords
       THEN quit' = TRUE /\ Call("break", Frame("cleanup", "", <<>>))
       ELSE
         /\ quit' = quit
         /\ IF Len(choice) = 1 /\ text = "all"
              THEN Call("press_enter", Frame("launch_all", "", <<>>))
            ELSE IF Len(choice) = 1 /\ text = "stop"
              THEN Call("press_enter", Frame("stop_all_nodes", "", <<>>))
            ELSE IF Len(choice) = 1 /\ text = "status"
              THEN Call("press_enter", Frame("show_status", "", <<>>))
            ELSE IF Len(choice) > 1
              THEN Call("press_enter", Frame("launch_multiple", "", choice))
            ELSE IF HasKey(text)
              THEN Call("press_enter", Frame("launch_node", NameOfKey(text), <<>>))
            ELSE Jump("press_enter")
  /\ UNCHANGED <<processes, children, last, argv, handler, exit_code, sigint, cleanups,
                 cleaned, listed>>

\* line 175
PressEnter ==
  /\ At("run_interactive", "press_enter")
  /\ Jump("menu")
  /\ UNCHANGED <<processes, children, last, argv, handler, exit_code, sigint, cleanups,
                 cleaned, quit, listed>>

\* line 151
BreakLoop ==
  /\ At("run_interactive", "break")
  /\ Return
  /\ UNCHANGED <<processes, children, last, argv, handler, exit_code, sigint, cleanups,
                 cleaned, quit, listed>>

\* a run_command_line that prints the catalog and goes on to --all and --nodes
CmdList_GoesOn ==
  /\ At("run_command_line", "start")
  /\ listed' = argv.list
  /\ Jump("launch")
  /\ UNCHANGED <<processes, children, last, argv, handler, exit_code, sigint, cleanups,
                 cleaned, quit>>

\* lines 179-183
CmdList ==
  /\ At("run_command_line", "start")
  /\ IF argv.list
     THEN listed' = TRUE /\ Return
     ELSE listed' = listed /\ Jump("launch")
  /\ UNCHANGED <<processes, children, last, argv, handler, exit_code, sigint, cleanups,
                 cleaned, quit>>

\* lines 185-188
CmdLaunch ==
  /\ At("run_command_line", "launch")
  /\ IF argv.all THEN Call("check", Frame("launch_all", "", <<>>))
     ELSE IF argv.nodes # <<>> THEN Jump("nodes")
     ELSE Jump("check")
  /\ UNCHANGED <<processes, children, last, argv, handler, exit_code, sigint, cleanups,
                 cleaned, quit, listed>>

\* lines 189-194: the keys of --nodes, not stripped
CmdNodes ==
  /\ At("run_command_line", "nodes")
  /\ IF Top.i > Len(argv.nodes) THEN Jump("check")
     ELSE LET node_key == argv.nodes[Top.i]
              next == [Top EXCEPT !.i = @ + 1]
          IN IF HasKey(node_key)
             THEN stack' = Append([stack EXCEPT ![Len(stack)] = next],
                                  Frame("launch_node", NameOfKey(node_key), <<>>))
             ELSE stack' = [stack EXCEPT ![Len(stack)] = next]
  /\ UNCHANGED <<processes, children, last, argv, handler, exit_code, sigint, cleanups,
                 cleaned, quit, listed>>

\* lines 196-200: with a node registered the run waits in signal.pause()
CmdCheck ==
  /\ At("run_command_line", "check")
  /\ IF processes # <<>> THEN Jump("pause") ELSE Return
  /\ UNCHANGED <<processes, children, last, argv, handler, exit_code, sigint, cleanups,
                 cleaned, quit, listed>>

\* lines 201-202: KeyboardInterrupt caught, cleanup() called
CmdExcept ==
  /\ At("run_command_line", "except")
  /\ Call("return", Frame("cleanup", "", <<>>))
  /\ UNCHANGED <<processes, children, last, argv, handler, exit_code, sigint, cleanups,
                 cleaned, quit, listed>>

CmdReturn ==
  /\ At("run_command_line", "return")
  /\ Return
  /\ UNCHANGED <<processes, children, last, argv, handler, exit_code, sigint, cleanups,
                 cleaned, quit, listed>>

\* lines 122-124
LaunchAllLoop ==
  /\ \/ At("launch_all", "start")
     \/ At("launch_all", "loop")
  /\ IF Top.i > Len(available_nodes) THEN Return
     ELSE Call("sleep", Frame("launch_node", available_nodes[Top.i].name, <<>>))
  /\ UNCHANGED <<processes, children, last, argv, handler, exit_code, sigint, cleanups,
                 cleaned, quit, listed>>

\* line 125
LaunchAllSleep ==
  /\ At("launch_all", "sleep")
  /\ stack' = [stack EXCEPT ![Len(stack)].i = @ + 1, ![Len(stack)].pc = "loop"]
  /\ UNCHANGED <<processes, children, last, argv, handler, exit_code, sigint, cleanups,
                 cleaned, quit, listed>>

\* lines 111-118
LaunchMultipleLoop ==
  /\ \/ At("launch_multiple", "start")
     \/ At("launch_multiple", "loop")
  /\ IF Top.i > Len(Top.keys) THEN Return
     ELSE LET key == strip(Top.keys[Top.i]) IN
          IF HasKey(key)
          THEN Call("sleep", Frame("launch_node", NameOfKey(key), <<>>))
          ELSE stack' = [stack EXCEPT ![Len(stack)].i = @ + 1, ![Len(stack)].pc = "loop"]
  /\ UNCHANGED <<processes, children, last, argv, handler, exit_code, sigint, cleanups,
                 cleaned, quit, listed>>

\* line 116
LaunchMultipleSleep ==
  /\ At("launch_multiple", "sleep")
  /\ stack' = [stack EXCEPT ![Len(stack)].i = @ + 1, ![Len(stack)].pc = "loop"]
  /\ UNCHANGED <<processes, children, last, argv, handler, exit_code, sigint, cleanups,
                 cleaned, quit, listed>>

\* lines 50-52
LaunchNodeCheck ==
  /\ At("launch_node", "start")
  /\ IF AlreadyRunning([processes |-> processes, children |-> children], Top.name) THEN Return ELSE Jump("popen")
  /\ UNCHANGED <<processes, children, last, argv, handler, exit_code, sigint, cleanups,
                 cleaned, quit, listed>>

\* lines 56-61 and 67-69: Popen returns a process, or raises and False is returned
LaunchNodePopen ==
  /\ At("launch_node", "popen")
  /\ \E spawn_ok \in BOOLEAN :
       IF spawn_ok /\ Len(children) < MaxSpawns
       THEN /\ children' = Append(children,
                                  [name |-> Top.name, alive |-> TRUE, signalled |-> FALSE,
                                   waited |-> FALSE])
            /\ stack' = [stack EXCEPT ![Len(stack)].pid = Len(children) + 1,
                                      ![Len(stack)].pc = "record"]
       ELSE /\ children' = children
            /\ Return
  /\ UNCHANGED <<processes, last, argv, handler, exit_code, sigint, cleanups, cleaned, quit, listed>>

\* lines 63-65
LaunchNodeRecord ==
  /\ At("launch_node", "record")
  /\ processes' = SetItem(processes, Top.name, Top.pid)
  /\ Return
  /\ UNCHANGED <<children, last, argv, handler, exit_code, sigint, cleanups, cleaned, quit, listed>>

\* lines 90-95: nothing registered, or the keys are listed for the loop
StopAllCheck ==
  /\ At("stop_all_nodes", "start")
  /\ IF processes = <<>> THEN Return
     ELSE stack' = [stack EXCEPT ![Len(stack)].keys = KeyList(processes),
                                 ![Len(stack)].pc = "loop"]
  /\ UNCHANGED <<processes, children, last, argv, handler, exit_code, sigint, cleanups,
                 cleaned, quit, listed>>

\* lines 95-97
StopAllLoop ==
  /\ At("stop_all_nodes", "loop")
  /\ IF Top.i > Len(Top.keys) THEN Return
     ELSE stack' = Append([stack EXCEPT ![Len(stack)].i = @ + 1],
                          Frame("stop_node", Top.keys[Top.i], <<>>))
  /\ UNCHANGED <<processes, children, last, argv, handler, exit_code, sigint, cleanups,
                 cleaned, quit, listed>>

\* lines 73-78
StopNodeCheck ==
  /\ At("stop_node", "start")
  /\ IF ~Registered(processes, Top.name) THEN Return
     ELSE stack' = [stack EXCEPT ![Len(stack)].pid = PidOf(processes, Top.name),
                                 ![Len(stack)].pc = "terminate"]
  /\ UNCHANGED <<processes, children, last, argv, handler, exit_code, sigint, cleanups,
                 cleaned, quit, listed>>

\* line 79: terminate() signals a child that is alive, or raises (lines 84-86)
StopNodeTerminate ==
  /\ At("stop_node", "terminate")
  /\ IF children[Top.pid].alive
     THEN \E raised \in BOOLEAN :
            IF raised
            THEN children' = children /\ Return
            ELSE /\ children' = [children EXCEPT ![Top.pid].signalled = TRUE]
                 /\ Jump("wait")
     ELSE children' = children /\ Jump("wait")
  /\ UNCHANGED <<processes, last, argv, handler, exit_code, sigint, cleanups, cleaned, quit, listed>>

\* line 80: wait(timeout=5) returns once the child has exited, or raises
\* TimeoutExpired (lines 84-86)
StopNodeWait ==
  /\ At("stop_node", "wait")
  /\ IF children[Top.pid].alive
     THEN \E exits \in BOOLEAN :
            IF exits
            THEN /\ children' = [children EXCEPT ![Top.pid].alive = FALSE,
                                                  ![Top.pid].waited = TRUE]
                 /\ Jump("del")
            ELSE children' = children /\ Return
     ELSE children' = [children EXCEPT ![Top.pid].waited = TRUE] /\ Jump("del")
  /\ UNCHANGED <<processes, last, argv, handler, exit_code, sigint, cleanups, cleaned, quit, listed>>

\* lines 81-83
StopNodeDel ==
  /\ At("stop_node", "del")
  /\ processes' = DelItem(processes, Top.name)
  /\ Return
  /\ UNCHANGED <<children, last, argv, handler, exit_code, sigint, cleanups, cleaned, quit, listed>>

\* lines 99-107
ShowStatusStep ==
  /\ At("show_status", "start")
  /\ Return
  /\ UNCHANGED <<processes, children, last, argv, handler, exit_code, sigint, cleanups,
                 cleaned, quit, listed>>

\* lines 129-130
CleanupStart ==
  /\ At("cleanup", "start")
  /\ cleanups' = cleanups + 1
  /\ Call("goodbye", Frame("stop_all_nodes", "", <<>>))
  /\ UNCHANGED <<processes, children, last, argv, handler, exit_code, sigint, cleaned, quit, listed>>

\* line 131
CleanupEnd ==
  /\ At("cleanup", "goodbye")
  /\ cleaned' = cleaned + 1
  /\ Return
  /\ UNCHANGED <<processes, children, last, argv, handler, exit_code, sigint, cleanups, quit, listed>>

\* line 137
HandlerStart ==
  /\ At("signal_handler", "start")
  /\ Call("exit", Frame("cleanup", "", <<>>))
  /\ UNCHANGED <<processes, children, last, argv, handler, exit_code, sigint, cleanups,
                 cleaned, quit, listed>>

\* line 138: sys.exit(0); SystemExit is no Exception, no frame catches it
HandlerExit ==
  /\ At("signal_handler", "exit")
  /\ exit_code' = "0"
  /\ stack' = <<>>
  /\ UNCHANGED <<processes, children, last, argv, handler, sigint, cleanups, cleaned, quit, listed>>

\* the operator interrupts a run that has started a child (an interrupt
\* before that finds nothing to clean up)
Started == children # <<>>

\* SIGINT arrives between two statements.  With signal_handler installed the
\* handler runs on top of whatever is running, a running handler included.
\* The frames it interrupts never run again: the handler ends in sys.exit(0),
\* SystemExit is no Exception and passes every `except Exception` of the file,
\* and no frame has a finally; so the stack keeps the handler's frame alone.
\* With the default handler KeyboardInterrupt is raised: it is no Exception,
\* so only the try of lines 198-201 around signal.pause() catches it; raised
\* anywhere else it ends the process with the status of an interrupted one.
Interrupt ==
  /\ exit_code = "running"
  /\ Started
  /\ sigint < MaxInterrupts
  /\ sigint' = sigint + 1
  /\ IF handler = "signal_handler"
     THEN stack' = <<Frame("signal_handler", "", <<>>)>> /\ exit_code' = exit_code
     ELSE IF Top.fn = "run_command_line" /\ Top.pc = "pause"
          THEN Jump("except") /\ exit_code' = exit_code
          ELSE stack' = <<>> /\ exit_code' = "130"
  /\ UNCHANGED <<processes, children, last, argv, handler, cleanups, cleaned, quit, listed>>

NextRun ==
  \/ MainDispatch
  \/ MainEnd
  \/ InstallHandler
  \/ MenuChoice
  \/ PressEnter
  \/ BreakLoop
  \/ CmdList
  \/ CmdLaunch
  \/ CmdNodes
  \/ CmdCheck
  \/ CmdExcept
  \/ CmdReturn
  \/ LaunchAllLoop
  \/ LaunchAllSleep
  \/ LaunchMultipleLoop
  \/ LaunchMultipleSleep
  \/ LaunchNodeCheck
  \/ LaunchNodePopen
  \/ LaunchNodeRecord
  \/ StopAllCheck
  \/ StopAllLoop
  \/ StopNodeCheck
  \/ StopNodeTerminate
  \/ StopNodeWait
  \/ StopNodeDel
  \/ ShowStatusStep
  \/ CleanupStart
  \/ CleanupEnd
  \/ HandlerStart
  \/ HandlerExit
  \/ Interrupt
  \/ ChildExit

SpecRun == InitRun /\ [][NextRun]_vars

----------------------------------------------------------------------------
(* Properties of the registry methods, checked under Spec *)

Arg1 == last.arg[1]

\* the names of the log entries with event e, in order
NamesOf(log, e) ==
  LET evs == SelectSeq(log, LAMBDA ev : ev.e = e) IN [i \in DOMAIN evs |-> evs[i].n]

Logged(log, e, n) == \E i \in DOMAIN log : log[i].e = e /\ log[i].n = n

\* the pid Popen returned in a log (0 when it raised)
SpawnedPid(log) == log[CHOOSE i \in DOMAIN log : log[i].e = "Popen"].pid

EntriesOf(procs, n) == {i \in DOMAIN procs : procs[i].name = n}

StoppedRegistered == last.op = "stop_node" /\ Registered(last.pre, Arg1)

LaunchedRegistered == last.op = "launch_node" /\ Registered(last.pre, Arg1)

\* C5: launch_node of a name that is a registry key returns False, spawns no
\* process and leaves the registry unchanged: the name keeps its pid and has
\* one entry.
C5_AlreadyRunning ==
  LaunchedRegistered =>
    /\ last.ret = "False"
    /\ \E i \in DOMAIN last.log :
         last.log[i] = Ev("already_running", Arg1, PidOf(last.pre, Arg1))
    /\ NoOSCall(last.log)
    /\ Len(children) = last.nkids
    /\ processes = last.pre
    /\ Cardinality(EntriesOf(processes, Arg1)) = 1

C5_Witness ==
  /\ LaunchedRegistered
  /\ last.ret = "False"
  /\ Len(processes) = 2

\* C6: each node name has at most one child of the launcher that is alive.
C6_OneLiveChildPerName ==
  \A p, q \in DOMAIN children :
    (children[p].alive /\ children[q].alive /\ children[p].name = children[q].name)
      => p = q

\* a node launched again after its first child was stopped: the second child
\* is alive and registered, the first has exited
C6_Witness ==
  \E p, q \in DOMAIN children :
    /\ p < q
    /\ children[p].name = children[q].name
    /\ ~children[p].alive
    /\ children[q].alive
    /\ Registered(processes, children[q].name)
    /\ PidOf(processes, children[q].name) = q

StatusAfterLaunch ==
  /\ last.op = "show_status"
  /\ last.prior.op = "launch_node"
  /\ ~Registered(last.prior.pre, last.prior.arg[1])

\* C7 as stated: for a name that is not registered, launch_node followed at
\* once by show_status lists exactly one entry for the name, with the pid of
\* the process just spawned, and the other entries as before.
C7_ListedAfterLaunch ==
  StatusAfterLaunch =>
    LET n == last.prior.arg[1]
        snap == Snapshot(last.log)
    IN /\ Cardinality(EntriesOf(snap, n)) = 1
       /\ PidOf(snap, n) = SpawnedPid(last.prior.log)
       /\ SelectSeq(snap, LAMBDA en : en.name # n) = last.prior.pre

\* C7 amended: for a name that is not registered, a launch_node that returns
\* True followed at once by show_status lists exactly one entry for the
\* name, with the pid of the process just spawned, and the other entries as
\* before; after a launch_node that returned False (Popen raised) the status
\* lists no entry for the name and the entries as before.
C7_ListedAfterLaunchDone ==
  StatusAfterLaunch =>
    LET n == last.prior.arg[1]
        snap == Snapshot(last.log)
        pid == SpawnedPid(last.prior.log)
    IN /\ last.prior.ret = "True" =>
            /\ Cardinality(EntriesOf(snap, n)) = 1
            /\ PidOf(snap, n) = pid
            /\ pid \in DOMAIN children /\ children[pid].name = n
            /\ snap = Append(last.prior.pre, [name |-> n, pid |-> pid])
       /\ last.prior.ret = "False" =>
            /\ EntriesOf(snap, n) = {}
            /\ snap = last.prior.pre
       /\ SelectSeq(snap, LAMBDA en : en.name # n) = last.prior.pre

\* a second node launched and listed after the first
C7_Witness ==
  /\ StatusAfterLaunch
  /\ last.prior.ret = "True"
  /\ last.prior.pre # <<>>
  /\ Len(Snapshot(last.log)) = 2

SpawnRaised ==
  /\ last.op = "launch_node"
  /\ ~Registered(last.pre, Arg1)
  /\ Logged(last.log, "Popen", Arg1)
  /\ SpawnedPid(last.log) = 0

\* C8: when Popen raises in launch_node, False is returned, the registry and
\* the children are as before the call, the name has no entry, and a launch of
\* the name in that state calls Popen again instead of reporting
\* already-running.
C8_FailedLaunchLeavesAbsent ==
  SpawnRaised =>
    /\ last.ret = "False"
    /\ Logged(last.log, "failed", Arg1)
    /\ processes = last.pre
    /\ Len(children) = last.nkids
    /\ ~Registered(processes, Arg1)
    /\ \A spawn_ok \in BOOLEAN :
         LET again == launch_node(Start(processes, children), Arg1, spawn_ok)
         IN /\ Logged(again.log, "Popen", Arg1)
            /\ ~Logged(again.log, "already_running", Arg1)

\* a failed launch next to a registered node
C8_Witness ==
  /\ SpawnRaised
  /\ last.ret = "False"
  /\ last.pre # <<>>
  /\ Len(children) < MaxSpawns

StoppedAbsent == last.op = "stop_node" /\ ~Registered(last.pre, Arg1)

\* C9: stop_node of a name that is no registry key returns False, reports
\* not-running, signals and waits on nothing and leaves the registry unchanged.
C9_NotRunning ==
  StoppedAbsent =>
    /\ last.ret = "False"
    /\ Logged(last.log, "not_running", Arg1)
    /\ NoOSCall(last.log)
    /\ processes = last.pre

\* a stop of an absent name while another node is registered
C9_Witness ==
  /\ StoppedAbsent
  /\ last.pre # <<>>
  /\ last.ret = "False"

StoppedAllOnEmpty == last.op = "stop_all_nodes" /\ last.pre = <<>>

\* C10: stop_all_nodes on an empty registry reports that no nodes are
\* running, calls neither stop_node nor the OS, leaves the registry empty, and
\* a further stop_all_nodes in the state it leaves gives that same state.
C10_StopAllOnEmptyIsNoOp ==
  StoppedAllOnEmpty =>
    /\ last.log = <<Ev("no_nodes_running", "", 0)>>
    /\ NoOSCall(last.log)
    /\ Count(last.log, "stop_node") = 0
    /\ processes = <<>>
    /\ Len(children) = last.nkids
    /\ \A outcomes \in [NodeNames -> StopOutcomes] :
         LET again == stop_all_nodes(Start(processes, children), outcomes)
         IN /\ again.processes = processes
            /\ again.children = children
            /\ again.log = last.log
            /\ again.ret = last.ret

\* stop_all_nodes on an empty registry after nodes were launched and stopped
C10_Witness ==
  /\ StoppedAllOnEmpty
  /\ children # <<>>
  /\ processes = <<>>

----------------------------------------------------------------------------
(* Properties of the batch methods, checked under Spec *)

Names(procs) == {procs[i].name : i \in DOMAIN procs}

\* every Popen of a log returned a process
AllSpawned(log) == \A i \in DOMAIN log : log[i].e = "Popen" => log[i].pid # 0

\* the keys of a list that are catalog keys as given, and once stripped
GivenCatalogKeys(keys) == SelectSeq(keys, LAMBDA k : HasKey(k))
StrippedCatalogKeys(keys) == SelectSeq(keys, LAMBDA k : HasKey(strip(k)))
OtherKeys(keys) == SelectSeq(keys, LAMBDA k : ~HasKey(strip(k)))

NamesOfKeys(keys) == [i \in DOMAIN keys |-> NameOfKey(strip(keys[i]))]
Stripped(keys) == [i \in DOMAIN keys |-> strip(keys[i])]
Range(seq) == {seq[i] : i \in DOMAIN seq}

LaunchedMany == last.op = "launch_multiple"

\* C11 as stated: launch_multiple(keys) with every spawn succeeding ends with
\* the registry holding the names it held before and the names of the keys
\* given that are catalog keys; every other key is reported invalid and
\* nothing is spawned for it.
C11_LaunchesCatalogKeys ==
  (LaunchedMany /\ AllSpawned(last.log)) =>
    /\ Names(processes) = Names(last.pre) \cup Range(NamesOfKeys(GivenCatalogKeys(last.arg)))
    /\ Count(last.log, "invalid_key") = Len(last.arg) - Len(GivenCatalogKeys(last.arg))

\* C11 amended: launch_multiple(keys) with every spawn succeeding ends with the
\* registry holding the names it held before and the names of the keys that
\* are catalog keys once their surrounding blanks are stripped; every other
\* key is reported invalid, nothing is spawned for it, and the keys after it
\* are processed all the same.
C11_LaunchesStrippedCatalogKeys ==
  LaunchedMany =>
    /\ NamesOf(last.log, "invalid_key") = Stripped(OtherKeys(last.arg))
    /\ NamesOf(last.log, "launch_node") = NamesOfKeys(StrippedCatalogKeys(last.arg))
    /\ Count(last.log, "Popen") <= Len(StrippedCatalogKeys(last.arg))
    /\ \A i \in DOMAIN last.log :
         last.log[i].e = "Popen" => last.log[i].n \in Range(NamesOfKeys(StrippedCatalogKeys(last.arg)))
    /\ SubSeq(processes, 1, Len(last.pre)) = last.pre
    /\ AllSpawned(last.log) =>
         Names(processes) =
           Names(last.pre) \cup Range(NamesOfKeys(StrippedCatalogKeys(last.arg)))

\* keys 1, 9, 2 on an empty registry: two entries, the key 9 reported
C11_Witness ==
  /\ LaunchedMany
  /\ last.arg = <<"1", UnknownKey, "2">>
  /\ last.pre = <<>>
  /\ AllSpawned(last.log)
  /\ Len(processes) = 2
  /\ NamesOf(last.log, "invalid_key") = <<UnknownKey>>

\* C12: a failure of one element does not end a batch: launch_multiple and
\* launch_all call launch_node for every catalog key of their list, also
\* after a launch_node that returned False; stop_all_nodes calls stop_node for
\* every node registered at the call, also after a stop_node that returned
\* False; and each of the three returns to its caller.
C12_BatchGoesOn ==
  /\ last.op = "launch_multiple" =>
       /\ NamesOf(last.log, "launch_node") = NamesOfKeys(StrippedCatalogKeys(last.arg))
       /\ last.ret = "None"
  /\ last.op = "launch_all" =>
       /\ NamesOf(last.log, "launch_node") = [i \in DOMAIN available_nodes |-> available_nodes[i].name]
       /\ last.ret = "None"
  /\ last.op = "stop_all_nodes" =>
       /\ NamesOf(last.log, "stop_node") = KeyList(last.pre)
       /\ last.ret = "None"

\* an event that ends a launch_node or a stop_node as a failure
FailureEvents == {"failed", "already_running", "error_stopping"}

\* a batch with a failed element followed by the attempt of the next element
C12_Witness ==
  /\ last.op \in {"launch_all", "stop_all_nodes"}
  /\ \E i, j \in DOMAIN last.log :
       /\ i < j
       /\ last.log[i].e \in FailureEvents
       /\ last.log[j].e \in {"Popen", "terminate"}
       /\ last.log[j].pid # 0

----------------------------------------------------------------------------
(* Properties of show_status and of exited children, checked under Spec *)

\* show_status called in the current state
StatusNow == show_status(Start(processes, children))

\* C13: show_status leaves the registry and the children as they are (it
\* spawns nothing, signals nothing and waits on nothing) and lists the
\* registry entries in registry order; as long as no launch, stop or stop-all
\* has run since a show_status, a second show_status lists the same
\* (name, pid) pairs in the same order, whether children exited or not.
C13_StatusReadsOnly ==
  /\ StatusNow.processes = processes
  /\ StatusNow.children = children
  /\ NoOSCall(StatusNow.log)
  /\ Snapshot(StatusNow.log) = processes
  /\ last.op = "show_status" =>
       /\ processes = last.pre
       /\ Len(children) = last.nkids
       /\ NoOSCall(last.log)
       /\ Snapshot(StatusNow.log) = Snapshot(last.log)

\* a show_status of two entries, one of whose children has exited since
C13_Witness ==
  /\ last.op = "show_status"
  /\ Len(Snapshot(last.log)) = 2
  /\ \E i \in DOMAIN processes : ~children[processes[i].pid].alive
  /\ \E i \in DOMAIN processes : children[processes[i].pid].alive

\* a registered node whose child has exited on its own or was stopped in vain
DeadRegistered(n) ==
  /\ Registered(processes, n)
  /\ ~children[PidOf(processes, n)].alive

\* the step is a call of stop_node(n) or of stop_all_nodes
StopsNode(n) ==
  /\ last' # last
  /\ \/ last'.op = "stop_all_nodes"
     \/ last'.op = "stop_node" /\ last'.arg = <<n>>

\* show_status lists n and launch_node(n) reports it as already running
StillListed(n) ==
  /\ \E i \in DOMAIN Snapshot(StatusNow.log) :
       Snapshot(StatusNow.log)[i] = [name |-> n, pid |-> PidOf(processes, n)]
  /\ \A spawn_ok \in BOOLEAN :
       LET r == launch_node(Start(processes, children), n, spawn_ok)
       IN /\ r.ret = "False"
          /\ Logged(r.log, "already_running", n)
          /\ r.processes = processes
          /\ r.children = children

\* C14: the registry does not follow the children: a registered node whose
\* child has exited is still listed by show_status and still refused by
\* launch_node as already running; every step other than a stop_node of that
\* name or a stop_all_nodes keeps its entry, with the same pid; and a
\* stop_node of that name or a stop_all_nodes removes the entry.
C14_ExitedChildStaysRegistered ==
  /\ [](\A n \in NodeNames : DeadRegistered(n) => StillListed(n))
  /\ [][\A n \in NodeNames : DeadRegistered(n) =>
          IF StopsNode(n)
          THEN ~Registered(processes', n)
          ELSE /\ Registered(processes', n)
               /\ PidOf(processes', n) = PidOf(processes, n)]_vars

\* a launch_node refused for a node whose child has exited
C14_Witness ==
  /\ last.op = "launch_node"
  /\ last.ret = "False"
  /\ DeadRegistered(Arg1)
  /\ Logged(last.log, "already_running", Arg1)
  /\ ~children[PidOf(processes, Arg1)].signalled

\* the stop_node calls of the last call, in the order they were made
StopAttempts == NamesOf(last.log, "stop_node")

AllKeys == [i \in DOMAIN available_nodes |-> available_nodes[i].key]

SpawnOutcomes == [DOMAIN available_nodes -> BOOLEAN]

\* C16: launch_all does what launch_multiple does on the list of all the
\* catalog keys in catalog order: from the same registry and with the same
\* outcome of each spawn, both make the same launch_node calls in the same
\* order, print the same lines after the heading of launch_all, and end with
\* the same registry and the same children.
C16_LaunchAllIsLaunchMultiple ==
  /\ \A oks \in SpawnOutcomes :
       LET all  == launch_all(Start(processes, children), oks)
           many == launch_multiple(Start(processes, children), AllKeys, oks)
       IN /\ all.processes = many.processes
          /\ all.children = many.children
          /\ all.ret = many.ret
          /\ NamesOf(all.log, "launch_node") = NamesOf(many.log, "launch_node")
          /\ all.log = <<Ev("launching_all", "", 0)>> \o many.log
  /\ last.op = "launch_all" =>
       \E oks \in SpawnOutcomes :
         LET many == launch_multiple(Start(last.pre, SubSeq(children, 1, last.nkids)),
                                     AllKeys, oks)
         IN /\ many.processes = processes
            /\ many.log = Tail(last.log)

\* a launch_all that found one node registered and spawned another
C16_Witness ==
  /\ last.op = "launch_all"
  /\ Count(last.log, "already_running") = 1
  /\ Count(last.log, "started") = 1
  /\ Len(processes) = 2

\* the child pid is the one the registry holds for its node name
Tracked(pid) ==
  /\ Registered(processes, children[pid].name)
  /\ PidOf(processes, children[pid].name) = pid

\* C18: between calls, every child spawned for which no wait() has returned
\* is the registry entry of its node name; so an entry is deleted only once
\* wait() has returned for its child, and a child that may still be alive is
\* never dropped from the registry.
C18_TrackedUntilWaited ==
  \A pid \in DOMAIN children :
    /\ ~children[pid].waited => Tracked(pid)
    /\ children[pid].alive => ~children[pid].waited

\* a stop_node whose wait timed out: the child was signalled, is still alive
\* and is still the entry of its name
C18_Witness ==
  /\ last.op = "stop_node"
  /\ last.ret = "False"
  /\ Logged(last.log, "wait", Arg1)
  /\ Registered(processes, Arg1)
  /\ children[PidOf(processes, Arg1)].alive
  /\ children[PidOf(processes, Arg1)].signalled
  /\ ~children[PidOf(processes, Arg1)].waited

\* C20: whenever stop_all_nodes prints "All nodes stopped" (the last thing
\* it does), the registry is empty when it returns.
C20_AllStoppedMeansEmpty ==
  (last.op = "stop_all_nodes" /\ Count(last.log, "all_stopped") > 0) =>
    processes = <<>>

----------------------------------------------------------------------------
(* Properties of a run of main(), checked under SpecRun *)

Ended == exit_code # "running"

\* C3: in a run that gets an interrupt, cleanup() (and so stop_all_nodes) runs
\* exactly once before the process ends: it is never entered a second time,
\* also when a second interrupt arrives while a cleanup is in progress, and
\* it is never skipped.
CleanupNeverReentered == cleanups <= 1
CleanupNeverSkipped == (Ended /\ sigint > 0) => cleanups >= 1
C3_CleanupExactlyOnce == CleanupNeverReentered /\ CleanupNeverSkipped

\* C4: when a run ends by the quit command or by an interrupt, in either
\* mode and wherever the interrupt arrives, cleanup() has run to its end
\* before the process ends and the exit status is 0.
C4_CleanupThenExitZero ==
  (Ended /\ (quit \/ sigint > 0)) => (cleaned >= 1 /\ exit_code = "0")

\* no child was spawned (so none was signalled) and the registry is empty
NothingStarted == children = <<>> /\ processes = <<>>

\* C17 as stated: whenever --list is given, with or without --all, --nodes
\* and --interactive, the run spawns and signals no process, keeps the
\* registry empty, and has printed the catalog when it ends.
C17_ListOnly ==
  argv.list =>
    /\ NothingStarted
    /\ Ended => (listed /\ exit_code = "0")

\* C17 amended: whenever --list is given without --interactive, with or
\* without --all and --nodes, the run spawns and signals no process, keeps
\* the registry empty, never enters the menu, and has printed the catalog
\* when it ends; the catalog is printed for --list in no other run.
C17_ListOnlyWithoutInteractive ==
  /\ (argv.list /\ ~argv.interactive) =>
       /\ NothingStarted
       /\ handler = "default"
       /\ Ended => (listed /\ exit_code = "0")
  /\ listed => (argv.list /\ ~argv.interactive)

\* a run of --list --all that has ended with the catalog printed
C17_Witness ==
  /\ argv.list
  /\ argv.all
  /\ Ended
  /\ listed
  /\ NothingStarted

\* line 233: the run is in interactive mode
InteractiveRun == argv.interactive \/ NoFlags(argv)

\* the run was ended by signal_handler: cleanup(), then sys.exit(0)
EndedByHandler == InteractiveRun /\ Ended /\ sigint > 0 /\ exit_code = "0"

\* C19: in interactive mode, wherever SIGINT arrives, also inside launch_node
\* between Popen and the recording of the process, every child that was
\* spawned and is still alive when the process ends has been sent the
\* terminate signal by the cleanup of signal_handler.
C19_InterruptSignalsEveryChild ==
  EndedByHandler =>
    \A pid \in DOMAIN children : children[pid].alive => children[pid].signalled
====
